---- MODULE Spec2Model ----
(***************************************************************************)
(* Model of contributing/samples/vap_mcp_agent/agent.py.                   *)
(*                                                                         *)
(* The module body reads the process environment (os.environ), binds two   *)
(* module globals (VAP_API_KEY, VAP_MCP_PROXY_PATH) and then constructs    *)
(* root_agent, an LlmAgent with one MCPToolset whose stdio connection      *)
(* parameters carry a command, an argument list, an environment mapping    *)
(* and a timeout.                                                          *)
(*                                                                         *)
(* Strings that flow from the environment are modelled as finite sequences *)
(* of chunks (opaque substrings): the empty string is << >>, a path is     *)
(* chunked at its separators.  A dict is a function whose DOMAIN is the    *)
(* set of keys present, so "key not in dict" and "key maps to the empty    *)
(* string" are different states.                                           *)
(***************************************************************************)
EXTENDS Integers, Sequences, FiniteSets, TLC

VARIABLES
    environ,             \* os.environ of the host process
    passwd,              \* passwd entry of the process uid (pw_dir), if any
    pc,                  \* position in the module body
    VAP_API_KEY,         \* module global, line 63
    VAP_MCP_PROXY_PATH,  \* module global, lines 64-67
    root_agent,          \* module global, lines 69-143
    build_environ,       \* history: os.environ when the last build started
    prev_build,          \* history: the build before the last one
    env_changes,         \* number of environment changes made by the host
    reloads              \* number of re-executions of the module body

vars == <<environ, passwd, pc, VAP_API_KEY, VAP_MCP_PROXY_PATH, root_agent,
          build_environ, prev_build, env_changes, reloads>>

(***************************************************************************)
(* Bounds of the exploration.                                              *)
(***************************************************************************)
MaxEnvChanges == 1
MaxReloads == 1

(***************************************************************************)
(* Environment variable names and the values explored for each.            *)
(***************************************************************************)
KeyVars == {"VAP_API_KEY", "VAPE_API_KEY"}
UrlVars == {"VAP_API_URL", "VAP_API_BASE_URL"}
EnvVars == KeyVars \cup UrlVars \cup {"VAP_MCP_PROXY_PATH", "HOME"}

EmptyStr == << >>
Slash == "/"

PrimaryValues == {EmptyStr, <<"abc123">>}
AliasValues == {EmptyStr, <<"legacy456">>}
KeyValues == PrimaryValues \cup AliasValues
UrlValues == {EmptyStr, <<"http://localhost:8080">>}
PathValues == {<<Slash, "tmp", Slash, "proxy.py">>}
HomeValues == {<<Slash, "home", Slash, "user", Slash>>}
PwDirValues == {<<Slash, "root">>}

ValuesOf(k) ==
    IF k = "VAP_API_KEY" THEN PrimaryValues
    ELSE IF k = "VAPE_API_KEY" THEN AliasValues
    ELSE IF k \in UrlVars THEN UrlValues
    ELSE IF k = "HOME" THEN HomeValues
    ELSE PathValues

AllValues == KeyValues \cup UrlValues \cup PathValues \cup HomeValues

EnvStates ==
    {e \in UNION {[S -> AllValues] : S \in SUBSET EnvVars} :
        \A k \in DOMAIN e : e[k] \in ValuesOf(k)}

PasswdStates ==
    {[f \in {} |-> EmptyStr]} \cup {[f \in {"pw_dir"} |-> d] : d \in PwDirValues}

(***************************************************************************)
(* os.getenv(key, default): the value when the key is present (the empty   *)
(* string included), the default otherwise.                                *)
(***************************************************************************)
getenv(e, key, default) ==
    IF key \in DOMAIN e THEN e[key] ELSE default

(***************************************************************************)
(* str.rstrip('/') on a chunked path.                                      *)
(***************************************************************************)
RECURSIVE rstrip(_)
rstrip(s) ==
    IF s # EmptyStr /\ s[Len(s)] = Slash
    THEN rstrip(SubSeq(s, 1, Len(s) - 1))
    ELSE s

(***************************************************************************)
(* Faulty variant of expanduser: plain concatenation, trailing separators  *)
(* of the home directory kept.                                             *)
(***************************************************************************)
expanduserNoStrip(e, pw, rest) ==
    IF "HOME" \in DOMAIN e
    THEN e["HOME"] \o rest
    ELSE IF "pw_dir" \in DOMAIN pw
         THEN pw["pw_dir"] \o rest
         ELSE <<"~">> \o rest

(***************************************************************************)
(* os.path.expanduser applied to a path of the form "~/rest", as on POSIX: *)
(* the home directory is $HOME when HOME is in the environment, else the   *)
(* pw_dir of the process uid; without either the path is returned          *)
(* unchanged.  rest is the path after the tilde, separator included.       *)
(***************************************************************************)
expanduser(e, pw, rest) ==
    IF "HOME" \in DOMAIN e
    THEN rstrip(e["HOME"]) \o rest
    ELSE IF "pw_dir" \in DOMAIN pw
         THEN rstrip(pw["pw_dir"]) \o rest
         ELSE <<"~">> \o rest

DefaultProxyFile == <<Slash, "vap_mcp_proxy.py">>
DefaultApiUrl == <<"https://api.vapagent.com/mcp">>
DefaultApiBaseUrl == <<"https://api.vapagent.com">>
Instruction == <<"You are VAP Media Assistant - an AI media generation specialist powered by VAP's MCP server. ...">>
Timeout == 300

(***************************************************************************)
(* Faulty variants of line 63, used to show that the key-resolution        *)
(* properties depend on it: `getenv(primary) or getenv(alias, '')`, which  *)
(* falls through on an empty primary, and a lookup that ignores the alias. *)
(***************************************************************************)
ResolveApiKeyTruthy(e) ==
    IF "VAP_API_KEY" \in DOMAIN e /\ e["VAP_API_KEY"] # EmptyStr
    THEN e["VAP_API_KEY"]
    ELSE getenv(e, "VAPE_API_KEY", EmptyStr)

ResolveApiKeyNoAlias(e) ==
    getenv(e, "VAP_API_KEY", EmptyStr)

(***************************************************************************)
(* Line 63: the primary variable, with the legacy alias as its default and *)
(* the empty string as the alias's default.                                *)
(***************************************************************************)
ResolveApiKey(e) ==
    getenv(e, "VAP_API_KEY", getenv(e, "VAPE_API_KEY", EmptyStr))

(***************************************************************************)
(* Lines 64-67: the override, with the expanded default path as default.   *)
(***************************************************************************)
ResolveProxyPath(e, pw) ==
    getenv(e, "VAP_MCP_PROXY_PATH", expanduser(e, pw, DefaultProxyFile))

(***************************************************************************)
(* Faulty variant of the first branch: forwards the raw primary variable   *)
(* instead of the resolved credential.                                     *)
(***************************************************************************)
EnvWithKeyRaw(e, key) ==
    [k \in {"VAP_API_KEY", "VAP_API_URL", "VAP_API_BASE_URL"} |->
        IF k = "VAP_API_KEY" THEN getenv(e, "VAP_API_KEY", EmptyStr)
        ELSE IF k = "VAP_API_URL" THEN getenv(e, "VAP_API_URL", DefaultApiUrl)
        ELSE getenv(e, "VAP_API_BASE_URL", DefaultApiBaseUrl)]

(***************************************************************************)
(* Lines 130-134: the dict literal of the branch taken when the key is     *)
(* truthy.                                                                 *)
(***************************************************************************)
EnvWithKey(e, key) ==
    [k \in {"VAP_API_KEY", "VAP_API_URL", "VAP_API_BASE_URL"} |->
        IF k = "VAP_API_KEY" THEN key
        ELSE IF k = "VAP_API_URL" THEN getenv(e, "VAP_API_URL", DefaultApiUrl)
        ELSE getenv(e, "VAP_API_BASE_URL", DefaultApiBaseUrl)]

(***************************************************************************)
(* Faulty variant of the second branch: the base-URL entry falls back to   *)
(* the MCP URL default (a copy-paste slip between the two branches).       *)
(***************************************************************************)
EnvWithoutKeySwapped(e) ==
    [k \in {"VAP_API_URL", "VAP_API_BASE_URL"} |->
        IF k = "VAP_API_URL" THEN getenv(e, "VAP_API_URL", DefaultApiUrl)
        ELSE getenv(e, "VAP_API_BASE_URL", DefaultApiUrl)]

(***************************************************************************)
(* Lines 134-137: the dict literal of the branch taken when the key is     *)
(* falsy (the empty string).                                               *)
(***************************************************************************)
EnvWithoutKey(e) ==
    [k \in {"VAP_API_URL", "VAP_API_BASE_URL"} |->
        IF k = "VAP_API_URL" THEN getenv(e, "VAP_API_URL", DefaultApiUrl)
        ELSE getenv(e, "VAP_API_BASE_URL", DefaultApiBaseUrl)]

(***************************************************************************)
(* Faulty variant of the conditional: the key is always forwarded, empty   *)
(* or not.                                                                 *)
(***************************************************************************)
ServerEnvAlways(e, key) ==
    EnvWithKey(e, key)

(***************************************************************************)
(* Lines 130-137: the conditional expression choosing between the two.     *)
(***************************************************************************)
ServerEnv(e, key) ==
    IF key # EmptyStr THEN EnvWithKey(e, key) ELSE EnvWithoutKey(e)

(***************************************************************************)
(* Faulty variant of the server parameters: a non-empty key is also passed *)
(* on the command line.                                                    *)
(***************************************************************************)
ServerParamsKeyArg(e, key, path) ==
    [command |-> "python",
     args |-> IF key # EmptyStr THEN <<path, key>> ELSE <<path>>,
     env |-> ServerEnv(e, key)]

(***************************************************************************)
(* Lines 127-138: StdioServerParameters(command, args, env).               *)
(***************************************************************************)
ServerParams(e, key, path) ==
    [command |-> "python", args |-> <<path>>, env |-> ServerEnv(e, key)]

(***************************************************************************)
(* Faulty variant of the agent: the timeout given in minutes.              *)
(***************************************************************************)
LlmAgentMinutes(e, key, path) ==
    [model |-> "gemini-2.5-flash",
     name |-> "vap_media_assistant",
     instruction |-> Instruction,
     tools |-> << [connection_params |->
                     [server_params |-> ServerParams(e, key, path),
                      timeout |-> Timeout \div 60]] >>]

(***************************************************************************)
(* Lines 69-143: LlmAgent(model, name, instruction, tools=[MCPToolset]).   *)
(***************************************************************************)
LlmAgent(e, key, path) ==
    [model |-> "gemini-2.5-flash",
     name |-> "vap_media_assistant",
     instruction |-> Instruction,
     tools |-> << [connection_params |->
                     [server_params |-> ServerParams(e, key, path),
                      timeout |-> Timeout]] >>]

NotDefined == <<"<NameError>">>
NoAgent == [undefined |-> TRUE]
NoBuild == [undefined |-> TRUE]

Init ==
    /\ environ \in EnvStates
    /\ passwd \in PasswdStates
    /\ pc = "line63"
    /\ VAP_API_KEY = NotDefined
    /\ VAP_MCP_PROXY_PATH = NotDefined
    /\ root_agent = NoAgent
    /\ build_environ = environ
    /\ prev_build = NoBuild
    /\ env_changes = 0
    /\ reloads = 0

(***************************************************************************)
(* Faulty variant of line 63: the resolved key is also exported into the   *)
(* process environment.                                                    *)
(***************************************************************************)
AssignApiKeyExport ==
    /\ pc = "line63"
    /\ VAP_API_KEY' = ResolveApiKey(environ)
    /\ environ' = [x \in DOMAIN environ \cup {"VAP_API_KEY"} |->
                      IF x = "VAP_API_KEY" THEN ResolveApiKey(environ)
                      ELSE environ[x]]
    /\ build_environ' = environ
    /\ pc' = "line64"
    /\ UNCHANGED <<passwd, VAP_MCP_PROXY_PATH, root_agent,
                   prev_build, env_changes, reloads>>

(***************************************************************************)
(* Statement at line 63.                                                   *)
(***************************************************************************)
AssignApiKey ==
    /\ pc = "line63"
    /\ VAP_API_KEY' = ResolveApiKey(environ)
    /\ build_environ' = environ
    /\ pc' = "line64"
    /\ UNCHANGED <<environ, passwd, VAP_MCP_PROXY_PATH, root_agent,
                   prev_build, env_changes, reloads>>

(***************************************************************************)
(* Statement at lines 64-67.                                               *)
(***************************************************************************)
AssignProxyPath ==
    /\ pc = "line64"
    /\ VAP_MCP_PROXY_PATH' = ResolveProxyPath(environ, passwd)
    /\ pc' = "line69"
    /\ UNCHANGED <<environ, passwd, VAP_API_KEY, root_agent, build_environ,
                   prev_build, env_changes, reloads>>

(***************************************************************************)
(* Faulty variant of lines 69-143: the toolset is appended to the tools    *)
(* left by an earlier execution of the module body.                        *)
(***************************************************************************)
AssignRootAgentAppend ==
    /\ pc = "line69"
    /\ root_agent' =
          LET a == LlmAgent(environ, VAP_API_KEY, VAP_MCP_PROXY_PATH) IN
          IF root_agent = NoAgent THEN a
          ELSE [a EXCEPT !.tools = root_agent.tools \o a.tools]
    /\ pc' = "done"
    /\ UNCHANGED <<environ, passwd, VAP_API_KEY, VAP_MCP_PROXY_PATH,
                   build_environ, prev_build, env_changes, reloads>>

(***************************************************************************)
(* Statement at lines 69-143.                                              *)
(***************************************************************************)
AssignRootAgent ==
    /\ pc = "line69"
    /\ root_agent' = LlmAgent(environ, VAP_API_KEY, VAP_MCP_PROXY_PATH)
    /\ pc' = "done"
    /\ UNCHANGED <<environ, passwd, VAP_API_KEY, VAP_MCP_PROXY_PATH,
                   build_environ, prev_build, env_changes, reloads>>

(***************************************************************************)
(* The host sets or clears an environment variable after the module has    *)
(* been executed (construction itself is synchronous and single-threaded). *)
(***************************************************************************)
PutEnv(k, v) ==
    /\ pc = "done"
    /\ env_changes < MaxEnvChanges
    /\ getenv(environ, k, NotDefined) # v
    /\ environ' = [x \in DOMAIN environ \cup {k} |->
                      IF x = k THEN v ELSE environ[x]]
    /\ env_changes' = env_changes + 1
    /\ UNCHANGED <<passwd, pc, VAP_API_KEY, VAP_MCP_PROXY_PATH, root_agent,
                   build_environ, prev_build, reloads>>

UnsetEnv(k) ==
    /\ pc = "done"
    /\ env_changes < MaxEnvChanges
    /\ k \in DOMAIN environ
    /\ environ' = [x \in DOMAIN environ \ {k} |-> environ[x]]
    /\ env_changes' = env_changes + 1
    /\ UNCHANGED <<passwd, pc, VAP_API_KEY, VAP_MCP_PROXY_PATH, root_agent,
                   build_environ, prev_build, reloads>>

(***************************************************************************)
(* The module body is executed again in the same process (a reload): the   *)
(* globals keep their values until the body rebinds them.                  *)
(***************************************************************************)
Reload ==
    /\ pc = "done"
    /\ reloads < MaxReloads
    /\ reloads' = reloads + 1
    /\ prev_build' = [environ |-> build_environ, agent |-> root_agent]
    /\ pc' = "line63"
    /\ UNCHANGED <<environ, passwd, VAP_API_KEY, VAP_MCP_PROXY_PATH,
                   root_agent, build_environ, env_changes>>

Next ==
    \/ AssignApiKey
    \/ AssignProxyPath
    \/ AssignRootAgent
    \/ \E k \in EnvVars : \E v \in ValuesOf(k) : PutEnv(k, v)
    \/ \E k \in EnvVars : UnsetEnv(k)
    \/ Reload

Spec == Init /\ [][Next]_vars

TypeOK ==
    /\ environ \in EnvStates
    /\ passwd \in PasswdStates
    /\ pc \in {"line63", "line64", "line69", "done"}
    /\ env_changes \in 0..MaxEnvChanges
    /\ reloads \in 0..MaxReloads

(***************************************************************************)
(* Accessors into the built agent: its single toolset's server parameters  *)
(* and connection timeout.                                                 *)
(***************************************************************************)
server_params(a) == a.tools[1].connection_params.server_params
timeout(a) == a.tools[1].connection_params.timeout

(***************************************************************************)
(* The whole module body as one function of the environment it runs in.    *)
(***************************************************************************)
ModuleBody(e, pw) ==
    LlmAgent(e, ResolveApiKey(e), ResolveProxyPath(e, pw))

Built == pc = "done"
KeyResolved == pc \in {"line64", "line69", "done"}
BuiltEnv == server_params(root_agent).env
BuiltArgs == server_params(root_agent).args
PrimarySet == "VAP_API_KEY" \in DOMAIN build_environ
AliasSet == "VAPE_API_KEY" \in DOMAIN build_environ
ProxySet == "VAP_MCP_PROXY_PATH" \in DOMAIN build_environ

(***************************************************************************)
(* C1: whenever the primary variable VAP_API_KEY is set (the empty string  *)
(* included), the resolved credential equals the primary variable's value, *)
(* whatever the alias VAPE_API_KEY holds and whether or not it is set.     *)
(***************************************************************************)
C1_PrimaryWins ==
    (KeyResolved /\ PrimarySet) =>
        VAP_API_KEY = build_environ["VAP_API_KEY"]

C1_Witness ==
    /\ Built
    /\ PrimarySet /\ AliasSet
    /\ build_environ["VAP_API_KEY"] = EmptyStr
    /\ build_environ["VAPE_API_KEY"] # EmptyStr
    /\ VAP_API_KEY = EmptyStr

(***************************************************************************)
(* C2 as stated: whenever the primary variable is not set and the alias is *)
(* set, the resolved credential equals the alias's value and that value is *)
(* forwarded under the VAP_API_KEY field of the descriptor's environment.  *)
(***************************************************************************)
C2_AliasAlwaysForwarded ==
    (Built /\ ~PrimarySet /\ AliasSet) =>
        /\ VAP_API_KEY = build_environ["VAPE_API_KEY"]
        /\ "VAP_API_KEY" \in DOMAIN BuiltEnv
        /\ BuiltEnv["VAP_API_KEY"] = build_environ["VAPE_API_KEY"]

(***************************************************************************)
(* C2 amended: whenever the primary variable is not set and the alias is   *)
(* set, the resolved credential equals the alias's value; that value is    *)
(* forwarded under the VAP_API_KEY field when it is non-empty, and the     *)
(* field is omitted when the alias is set to the empty string.             *)
(***************************************************************************)
C2_AliasFallback ==
    (Built /\ ~PrimarySet /\ AliasSet) =>
        /\ VAP_API_KEY = build_environ["VAPE_API_KEY"]
        /\ build_environ["VAPE_API_KEY"] # EmptyStr =>
              /\ "VAP_API_KEY" \in DOMAIN BuiltEnv
              /\ BuiltEnv["VAP_API_KEY"] = build_environ["VAPE_API_KEY"]
        /\ build_environ["VAPE_API_KEY"] = EmptyStr =>
              "VAP_API_KEY" \notin DOMAIN BuiltEnv

C2_Witness ==
    /\ Built
    /\ ~PrimarySet /\ AliasSet
    /\ build_environ["VAPE_API_KEY"] = <<"legacy456">>
    /\ "VAP_API_KEY" \in DOMAIN BuiltEnv
    /\ BuiltEnv["VAP_API_KEY"] = <<"legacy456">>

(***************************************************************************)
(* C3: whenever neither key variable is set, the resolved credential is    *)
(* the empty string and the descriptor's environment has exactly the two   *)
(* entries VAP_API_URL and VAP_API_BASE_URL, with no VAP_API_KEY key.      *)
(***************************************************************************)
C3_NoKeyNoField ==
    (Built /\ ~PrimarySet /\ ~AliasSet) =>
        /\ VAP_API_KEY = EmptyStr
        /\ DOMAIN BuiltEnv = {"VAP_API_URL", "VAP_API_BASE_URL"}
        /\ Cardinality(DOMAIN BuiltEnv) = 2
        /\ "VAP_API_KEY" \notin DOMAIN BuiltEnv

C3_Witness ==
    /\ Built
    /\ ~PrimarySet /\ ~AliasSet
    /\ DOMAIN BuiltEnv = UrlVars
    /\ BuiltEnv["VAP_API_URL"] = DefaultApiUrl
    /\ BuiltEnv["VAP_API_BASE_URL"] = DefaultApiBaseUrl

(***************************************************************************)
(* C4: the descriptor's environment contains the VAP_API_KEY field exactly *)
(* when the resolved credential is non-empty; when present, its value is   *)
(* the resolved credential, the mapping has exactly three entries, and the *)
(* value is never the empty string.                                        *)
(***************************************************************************)
C4_FieldIffNonEmpty ==
    Built =>
        /\ ("VAP_API_KEY" \in DOMAIN BuiltEnv) <=> (VAP_API_KEY # EmptyStr)
        /\ "VAP_API_KEY" \in DOMAIN BuiltEnv =>
              /\ BuiltEnv["VAP_API_KEY"] = VAP_API_KEY
              /\ BuiltEnv["VAP_API_KEY"] # EmptyStr
              /\ Cardinality(DOMAIN BuiltEnv) = 3
              /\ UrlVars \subseteq DOMAIN BuiltEnv

C4_Witness ==
    /\ Built
    /\ PrimarySet /\ build_environ["VAP_API_KEY"] = EmptyStr
    /\ AliasSet /\ build_environ["VAPE_API_KEY"] = <<"legacy456">>
    /\ "VAP_API_KEY" \notin DOMAIN BuiltEnv

(***************************************************************************)
(* C5: in every environment the descriptor's timeout is exactly 300 (so    *)
(* strictly positive) and its command is the non-empty string 'python'.    *)
(***************************************************************************)
C5_TimeoutAndCommand ==
    Built =>
        /\ timeout(root_agent) = 300
        /\ timeout(root_agent) > 0
        /\ server_params(root_agent).command = "python"
        /\ server_params(root_agent).command # ""

C5_Witness ==
    /\ Built
    /\ DOMAIN build_environ = EnvVars
    /\ timeout(root_agent) = 300

(***************************************************************************)
(* The home directories against which "~" can be resolved: $HOME when it   *)
(* is set, else the pw_dir of the process uid, else none.                  *)
(***************************************************************************)
HomeDirs ==
    IF "HOME" \in DOMAIN build_environ THEN {build_environ["HOME"]}
    ELSE {passwd[f] : f \in DOMAIN passwd}

(***************************************************************************)
(* C6 as stated: in every environment the argument list has exactly one    *)
(* element: the value of VAP_MCP_PROXY_PATH when that variable is set, and *)
(* otherwise vap_mcp_proxy.py resolved against the user's home directory.  *)
(***************************************************************************)
C6_ArgsAlwaysResolved ==
    Built =>
        /\ Len(BuiltArgs) = 1
        /\ ProxySet => BuiltArgs = <<build_environ["VAP_MCP_PROXY_PATH"]>>
        /\ ~ProxySet =>
              \E home \in HomeDirs :
                  BuiltArgs[1] = rstrip(home) \o DefaultProxyFile

(***************************************************************************)
(* C6 amended: the argument list has exactly one element: the value of     *)
(* VAP_MCP_PROXY_PATH when that variable is set; otherwise vap_mcp_proxy.py *)
(* resolved against the user's home directory when one can be determined   *)
(* (HOME is set, or the process uid has a passwd entry), and the unexpanded *)
(* path ~/vap_mcp_proxy.py when none can.                                  *)
(***************************************************************************)
C6_ArgsSingleton ==
    Built =>
        /\ Len(BuiltArgs) = 1
        /\ ProxySet => BuiltArgs = <<build_environ["VAP_MCP_PROXY_PATH"]>>
        /\ (~ProxySet /\ HomeDirs # {}) =>
              \E home \in HomeDirs :
                  BuiltArgs[1] = rstrip(home) \o DefaultProxyFile
        /\ (~ProxySet /\ HomeDirs = {}) =>
              BuiltArgs[1] = <<"~", Slash, "vap_mcp_proxy.py">>

C6_Witness ==
    /\ Built
    /\ ~ProxySet
    /\ "HOME" \in DOMAIN build_environ
    /\ build_environ["HOME"] = <<Slash, "home", Slash, "user", Slash>>
    /\ BuiltArgs = << <<Slash, "home", Slash, "user", Slash, "vap_mcp_proxy.py">> >>

(***************************************************************************)
(* C7: two executions of the module body under identical environment       *)
(* states yield structurally equal agents (model, name, instruction, and   *)
(* one toolset with the same command, arguments, environment, timeout).    *)
(***************************************************************************)
C7_BuildIdempotent ==
    (Built /\ prev_build # NoBuild /\ prev_build.environ = build_environ) =>
        /\ root_agent = prev_build.agent
        /\ Len(root_agent.tools) = Len(prev_build.agent.tools)
        /\ server_params(root_agent) = server_params(prev_build.agent)
        /\ timeout(root_agent) = timeout(prev_build.agent)

C7_Witness ==
    /\ Built
    /\ reloads = 1
    /\ prev_build # NoBuild
    /\ prev_build.environ = build_environ
    /\ "VAP_API_KEY" \in DOMAIN build_environ
    /\ root_agent = prev_build.agent

(***************************************************************************)
(* C8: once root_agent has been built, no change to the process            *)
(* environment changes the built credential, argument list, environment    *)
(* mapping or timeout; and the execution of the module body leaves the     *)
(* process environment unchanged.                                          *)
(***************************************************************************)
C8_Step ==
    /\ (pc = "done" /\ pc' = "done") =>
          UNCHANGED <<VAP_API_KEY, VAP_MCP_PROXY_PATH, root_agent>>
    /\ environ' # environ =>
          UNCHANGED <<VAP_API_KEY, VAP_MCP_PROXY_PATH, root_agent>>
    /\ pc # "done" => environ' = environ

C8_BuiltIsImmutable == [][C8_Step]_vars

C8_Witness ==
    /\ Built
    /\ environ # build_environ
    /\ ResolveApiKey(environ) # VAP_API_KEY
    /\ root_agent = ModuleBody(build_environ, passwd)
    /\ root_agent # ModuleBody(environ, passwd)

(***************************************************************************)
(* C9: in both branches the environment mapping contains VAP_API_URL and   *)
(* VAP_API_BASE_URL; each equals the same-named host variable when that is *)
(* set (the empty string included) and its hardcoded default otherwise;    *)
(* the two branches produce identical URL entries for one environment.     *)
(***************************************************************************)
UrlDefault(u) ==
    IF u = "VAP_API_URL" THEN <<"https://api.vapagent.com/mcp">>
    ELSE <<"https://api.vapagent.com">>

C9_UrlEntries ==
    Built =>
        \A u \in UrlVars :
            /\ u \in DOMAIN BuiltEnv
            /\ u \in DOMAIN build_environ => BuiltEnv[u] = build_environ[u]
            /\ u \notin DOMAIN build_environ => BuiltEnv[u] = UrlDefault(u)
            /\ \A key \in KeyValues :
                  /\ u \in DOMAIN EnvWithKey(build_environ, key)
                  /\ u \in DOMAIN EnvWithoutKey(build_environ)
                  /\ EnvWithKey(build_environ, key)[u]
                        = EnvWithoutKey(build_environ)[u]

C9_Witness ==
    /\ Built
    /\ "VAP_API_KEY" \notin DOMAIN BuiltEnv
    /\ "VAP_API_URL" \in DOMAIN build_environ
    /\ build_environ["VAP_API_URL"] = EmptyStr
    /\ BuiltEnv["VAP_API_URL"] = EmptyStr
    /\ "VAP_API_BASE_URL" \notin DOMAIN build_environ
    /\ BuiltEnv["VAP_API_BASE_URL"] = <<"https://api.vapagent.com">>

(***************************************************************************)
(* The environments that differ from e at most in whether the two key      *)
(* variables are set and in their values.                                  *)
(***************************************************************************)
KeyVariants(e) ==
    UNION {
        {[x \in (DOMAIN e \ KeyVars) \cup S |->
             IF x \in S THEN f[x] ELSE e[x]] :
            f \in {g \in [S -> KeyValues] : \A x \in S : g[x] \in ValuesOf(x)}}
        : S \in SUBSET KeyVars}

(***************************************************************************)
(* C10: for two environments that differ only in the key variables, the    *)
(* built agents have the same model, name, instruction, number of tools    *)
(* (one), command, argument list, timeout and URL entries; only the        *)
(* presence and the value of the VAP_API_KEY entry may differ.             *)
(***************************************************************************)
C10_KeyFlowsOnlyToKeyField ==
    Built =>
        \A e2 \in KeyVariants(build_environ) :
            LET a2 == ModuleBody(e2, passwd) IN
            /\ a2.model = root_agent.model
            /\ a2.name = root_agent.name
            /\ a2.instruction = root_agent.instruction
            /\ Len(a2.tools) = 1 /\ Len(root_agent.tools) = 1
            /\ server_params(a2).command = server_params(root_agent).command
            /\ server_params(a2).args = BuiltArgs
            /\ timeout(a2) = timeout(root_agent)
            /\ DOMAIN server_params(a2).env \ {"VAP_API_KEY"}
                  = DOMAIN BuiltEnv \ {"VAP_API_KEY"}
            /\ \A u \in UrlVars : server_params(a2).env[u] = BuiltEnv[u]

C10_Witness ==
    /\ Built
    /\ "VAP_API_KEY" \in DOMAIN BuiltEnv
    /\ \E e2 \in KeyVariants(build_environ) :
          /\ "VAP_API_KEY" \notin DOMAIN server_params(ModuleBody(e2, passwd)).env
          /\ server_params(ModuleBody(e2, passwd)).args = BuiltArgs
====
